---- MODULE Spec2Model ----
(***************************************************************************)
(* Model of _SessionManager (Context/Session.ts): the automatic session,   *)
(* its renewal rules and its persistence in the ai_session cookie and in   *)
(* local storage.                                                          *)
(*                                                                         *)
(* Strings are sequences of one-character strings, so that split("|"),     *)
(* join("|") and the numeric coercions are computed character by           *)
(* character.  A number that a field holds is a pair of integers (a time   *)
(* value), JavaScript's undefined and NaN being the sentinels below.       *)
(***************************************************************************)
EXTENDS FiniteSets, Integers, Sequences, TLC

\* ------------------------------------------------------------------------
\* JavaScript values
\* ------------------------------------------------------------------------

\* A time value, the number of milliseconds that a field of Session, the
\* manager's cookieUpdatedTimestamp or the cookie's expiry holds, is the
\* pair <<hi, lo>> that stands for hi * TimeUnit + lo, 0 <= lo < TimeUnit.
\* A field holds whatever a persisted payload names, up to the 8.64e15 of
\* Date, and every sum and difference the code forms of such numbers is
\* below 2^53, so exact in JavaScript and in the pairs alike.
TimeUnit == 100000000

\* The number of decimal digits of lo.
UnitDigits == 8

\* The time value of the integer n >= 0.
TimeValue(n) == <<n \div TimeUnit, n % TimeUnit>>

\* A numeric field that was never assigned.
Undefined == <<-1, 0>>

\* The result of arithmetic on undefined; "Invalid Date".
NaN == <<-2, 0>>

\* x is a number, neither undefined nor NaN.
IsNumber(x) == x[1] >= 0

\* a < b for two numbers (undefined and NaN sort before every number).
Before(a, b) == a[1] < b[1] \/ (a[1] = b[1] /\ a[2] < b[2])

\* a + n for a number a and an integer n, 0 <= n < 2^30.
Sum(a, n) ==
    LET lo == a[2] + n
    IN  <<a[1] + lo \div TimeUnit, lo % TimeUnit>>

\* The largest time value of a Date: 8.64e15 ms.
MaxDate == <<86400000, 0>>

\* Session.id before it is assigned.
UndefinedId == <<"undefined">>

\* The empty string; also what a missing cookie or storage item reads as
\* (Util.getCookie returns "", Util.getStorage returns null: both falsy).
Empty == <<>>

\* !s for a string-or-undefined s.
Falsy(s) == s = UndefinedId \/ s = Empty

Digits == <<"0", "1", "2", "3", "4", "5", "6", "7", "8", "9">>

IsDigit(c) == c \in {"0", "1", "2", "3", "4", "5", "6", "7", "8", "9"}

DigitVal(c) ==
    CASE c = "0" -> 0 [] c = "1" -> 1 [] c = "2" -> 2 [] c = "3" -> 3
      [] c = "4" -> 4 [] c = "5" -> 5 [] c = "6" -> 6 [] c = "7" -> 7
      [] c = "8" -> 8 [] c = "9" -> 9

AllDigits(s) ==
    LET str == s
    IN  \A i \in 1..Len(str) : IsDigit(str[i])

\* The value of the decimal numeral s[1..n], n <= 9.
RECURSIVE DigitsVal(_, _)
DigitsVal(s, n) ==
    IF n = 0 THEN 0 ELSE 10 * DigitsVal(s, n - 1) + DigitVal(s[n])

\* The time value of the decimal numeral s of at most 2 * UnitDigits
\* digits.
TimeOfDigits(s) ==
    LET n    == Len(s)
        high == IF n > UnitDigits THEN n - UnitDigits ELSE 0
        low  == SubSeq(s, high + 1, n)
    IN  <<DigitsVal(s, high), DigitsVal(low, n - high)>>

\* Number.prototype.toString for an integer n >= 0.
RECURSIVE NatToString(_)
NatToString(n) ==
    IF n < 10 THEN <<Digits[n + 1]>>
    ELSE NatToString(n \div 10) \o <<Digits[(n % 10) + 1]>>

\* s with zeros before it, to the width of lo.
ZeroPadded(s) == [i \in 1..(UnitDigits - Len(s)) |-> "0"] \o s

\* What Array.prototype.join writes for a string element: "" for undefined.
IdString(guid) == IF guid = UndefinedId THEN Empty ELSE guid

\* What Array.prototype.join writes for a numeric element: "" for
\* undefined, "NaN" for NaN, the decimal digits otherwise (a time value is
\* below 1e21, where Number.prototype.toString turns to the exponent form).
NumberString(n) ==
    IF n = Undefined THEN Empty
    ELSE IF n = NaN THEN <<"N", "a", "N">>
    ELSE IF n[1] = 0 THEN NatToString(n[2])
    ELSE NatToString(n[1]) \o ZeroPadded(NatToString(n[2]))

\* Mutant: the two dates are written in the wrong order.
JoinTriple_Swapped(guid, acq, renewal) ==
    IdString(guid) \o <<"|">> \o NumberString(renewal) \o <<"|">>
        \o NumberString(acq)

\* [guid, acq, renewal].join('|')
JoinTriple(guid, acq, renewal) ==
    IdString(guid) \o <<"|">> \o NumberString(acq) \o <<"|">>
        \o NumberString(renewal)

\* The first position of s holding a character of cs, or Len(s) + 1.
FirstOf(s, cs) ==
    LET str  == s
        hits == {i \in 1..Len(str) : str[i] \in cs}
    IN  IF hits = {} THEN Len(str) + 1
        ELSE CHOOSE i \in hits : \A j \in hits : i <= j

\* String.prototype.split("|"): the field before the first "|", then the
\* fields of the rest; always at least one field.
RECURSIVE Split(_)
Split(s) ==
    LET str  == s
        bar  == FirstOf(str, {"|"})
        rest == SubSeq(str, bar + 1, Len(str))
    IN  IF bar > Len(str) THEN <<str>>
        ELSE <<SubSeq(str, 1, bar - 1)>> \o Split(rest)

\* White space that the string-to-number conversion strips: the members of
\* StrWhiteSpaceChar that a string of the model can hold, which are the
\* space, the tab, the line feed, the carriage return, the form feed, the
\* vertical tab (U+000B), the no-break space (U+00A0), the ogham space
\* mark (U+1680) and the byte order mark (U+FEFF).  The others (U+2000 to
\* U+200A, U+2028, U+2029, U+202F, U+205F, U+3000) are no characters of a
\* string here.
IsSpace(c) ==
    c \in {" ", "\t", "\n", "\r", "\f",
           "", " ", " ", "﻿"}

\* s without leading and trailing white space.
RECURSIVE Trim(_)
Trim(s) ==
    IF s = Empty THEN s
    ELSE IF IsSpace(s[1]) THEN Trim(Tail(s))
    ELSE IF IsSpace(s[Len(s)]) THEN Trim(SubSeq(s, 1, Len(s) - 1))
    ELSE s

\* s without its leading zeros.
RECURSIVE StripZeros(_)
StripZeros(s) ==
    IF s # Empty /\ s[1] = "0" THEN StripZeros(Tail(s)) ELSE s

\* s without its trailing zeros.
RECURSIVE StripTrailingZeros(_)
StripTrailingZeros(s) ==
    IF s # Empty /\ s[Len(s)] = "0"
    THEN StripTrailingZeros(SubSeq(s, 1, Len(s) - 1))
    ELSE s

IsHexDigit(c) ==
    \/ IsDigit(c)
    \/ c \in {"a", "b", "c", "d", "e", "f", "A", "B", "C", "D", "E", "F"}

HexDigitVal(c) ==
    CASE c \in {"a", "A"} -> 10 [] c \in {"b", "B"} -> 11
      [] c \in {"c", "C"} -> 12 [] c \in {"d", "D"} -> 13
      [] c \in {"e", "E"} -> 14 [] c \in {"f", "F"} -> 15
      [] OTHER -> DigitVal(c)

\* Every character of s is a digit of the base.
AllInBase(s, base) ==
    LET str == s
    IN  \A i \in 1..Len(str) : IsHexDigit(str[i]) /\ HexDigitVal(str[i]) < base

\* The value of s[1..n] read in the base, as a time value; once a prefix
\* is beyond MaxDate the result is that of the prefix, beyond MaxDate too.
RECURSIVE BaseVal(_, _, _)
BaseVal(s, n, base) ==
    IF n = 0 THEN TimeValue(0)
    ELSE LET acc == BaseVal(s, n - 1, base)
             lo  == base * acc[2] + HexDigitVal(s[n])
         IN  IF Before(MaxDate, acc) THEN acc
             ELSE <<base * acc[1] + lo \div TimeUnit, lo % TimeUnit>>

\* +new Date(n) for a finite n: its magnitude as a time value, and whether
\* it is below zero (a Date has no negative zero).
Number(v, negative) ==
    [nan |-> FALSE, negative |-> negative /\ v # TimeValue(0), val |-> v]

\* +new Date(n) when n is NaN, infinite or beyond the range of Date.
NotANumber == [nan |-> TRUE, negative |-> FALSE, val |-> TimeValue(0)]

\* TimeClip: NaN beyond 8.64e15 ms in magnitude.
Clipped(v, negative) ==
    IF Before(MaxDate, v) THEN NotANumber ELSE Number(v, negative)

\* +new Date(+digits) for the digits after a 0x, 0o or 0b prefix.
RadixDate(digits, base) ==
    LET z == StripZeros(digits)
    IN  IF digits = Empty \/ ~AllInBase(digits, base) THEN NotANumber
        ELSE Clipped(BaseVal(z, Len(z), base), FALSE)

\* The digits of an exponent part ("e", an optional sign, digits).
ExponentDigits(expo) ==
    IF Len(expo) > 1 /\ (expo[2] = "-" \/ expo[2] = "+")
    THEN SubSeq(expo, 3, Len(expo))
    ELSE Tail(expo)

\* expo is no exponent part at all, or a well-formed one.
ExponentOk(expo) ==
    \/ expo = Empty
    \/ ExponentDigits(expo) # Empty /\ AllDigits(ExponentDigits(expo))

\* The power of ten a well-formed exponent part stands for; one of more
\* than nine significant digits is beyond any string's length already.
ExponentVal(expo) ==
    IF expo = Empty THEN 0
    ELSE LET ez   == StripZeros(ExponentDigits(expo))
             emag == IF Len(ez) > 9 THEN 1000000000 ELSE DigitsVal(ez, Len(ez))
         IN  IF expo[2] = "-" THEN 0 - emag ELSE emag

\* 2 * p for a time value p.
Twice(p) ==
    LET lo == 2 * p[2]
    IN  <<2 * p[1] + lo \div TimeUnit, lo % TimeUnit>>

\* The k with 2^k <= x < 2^(k+1): the exponent of x as a double, for a
\* time value x, given p = 2^from <= x.
RECURSIVE BinaryExponent(_, _, _)
BinaryExponent(x, from, p) ==
    LET next == Twice(p)
    IN  IF Before(x, next) THEN from ELSE BinaryExponent(x, from + 1, next)

\* The decimal digits of 1 - 0.f, for fraction digits f whose last is not
\* a zero.
Complement(f) ==
    LET str == f
        n   == Len(str)
        d   == [i \in 1..n |-> IF i = n THEN 10 - DigitVal(str[i])
                               ELSE 9 - DigitVal(str[i])]
    IN  SubSeq(d, 1, n)

\* The decimal digits of the fraction of 2 * 0.c (the last of c is not a
\* zero; the carry into the units is c[1] >= 5).
Doubled(c) ==
    LET cur == c
        n   == Len(cur)
        d   == [i \in 1..n |->
                   (2 * cur[i] + IF i < n /\ cur[i + 1] >= 5 THEN 1 ELSE 0)
                       % 10]
    IN  SubSeq(d, 1, IF d[n] = 0 THEN n - 1 ELSE n)

\* How 0.c * 2^j stands to 1: -1 when below, 0 when equal, 1 when above.
RECURSIVE AgainstOne(_, _)
AgainstOne(c, j) ==
    LET cur == c
    IN  IF j = 0 THEN -1
        ELSE IF cur[1] >= 5 THEN (IF j = 1 /\ cur = <<5>> THEN 0 ELSE 1)
        ELSE AgainstOne(Doubled(cur), j - 1)

\* The double nearest to whole + 0.f is whole + 1 (f is not empty and its
\* last digit is not a zero; whole is at most MaxDate).  The doubles from
\* whole up to whole + 1 are 2^(e - 52) apart, e the binary exponent of
\* whole (-1 for 0), so the literal is read as whole + 1 when it is within
\* 2^-j of it, j = 53 - e; a literal halfway between two doubles is read as
\* the one with the even significand, which is whole + 1 unless the two are
\* the integers themselves (j = 1) and whole is the even one.
RoundsUp(whole, f) ==
    LET j    == IF whole = TimeValue(0) THEN 54
                ELSE 53 - BinaryExponent(whole, 0, TimeValue(1))
        side == AgainstOne(Complement(f), j)
    IN  side < 0 \/ (side = 0 /\ (j > 1 \/ whole[2] % 2 = 1))

\* The number of digits from which an integer is beyond MaxDate whatever
\* the digits are.
DateDigits == 17

\* The integer that new Date() keeps of the number whose significant
\* digits are digits, count of them standing before the decimal point: the
\* integer part of the double nearest to the number.
IntegerPart(digits, count, negative) ==
    IF digits = Empty \/ count < 0 THEN Number(TimeValue(0), FALSE)
    ELSE IF count >= DateDigits THEN NotANumber
    ELSE LET n     == Len(digits)
             kept  == IF count <= n THEN SubSeq(digits, 1, count)
                      ELSE digits \o [i \in 1..(count - n) |-> "0"]
             rest  == IF count < n
                      THEN StripTrailingZeros(SubSeq(digits, count + 1, n))
                      ELSE Empty
             whole == TimeOfDigits(kept)
         IN  IF Before(MaxDate, whole) THEN NotANumber
             ELSE IF rest # Empty /\ RoundsUp(whole, rest)
                  THEN Clipped(Sum(whole, 1), negative)
                  ELSE Number(whole, negative)

\* +new Date(+literal) for the decimal literal whole.frac with the exponent
\* part expo: the exponent moves the decimal point.
ScaledDate(whole, frac, expo, negative) ==
    IF ~(/\ AllDigits(whole)
         /\ AllDigits(frac)
         /\ (whole # Empty \/ frac # Empty)
         /\ ExponentOk(expo))
    THEN NotANumber
    ELSE LET digits == StripZeros(whole \o frac)
             count  == ExponentVal(expo) + Len(digits) - Len(frac)
         IN  IntegerPart(digits, count, negative)

\* +new Date(+literal) for the mantissa mant and the exponent part expo.
MantissaDate(mant, expo, negative) ==
    LET dot   == FirstOf(mant, {"."})
        whole == SubSeq(mant, 1, dot - 1)
        frac  == SubSeq(mant, dot + 1, Len(mant))
    IN  ScaledDate(whole, frac, expo, negative)

\* +new Date(+body) for an unsigned decimal literal body, negated when
\* negative: digits with an optional fraction and an optional exponent.
DecimalDate(body, negative) ==
    LET epos == FirstOf(body, {"e", "E"})
        mant == SubSeq(body, 1, epos - 1)
        expo == SubSeq(body, epos, Len(body))
    IN  MantissaDate(mant, expo, negative)

\* The base a 0x, 0o or 0b prefix of t announces, else 10.
BaseOf(t) ==
    IF Len(t) < 2 \/ t[1] # "0" THEN 10
    ELSE CASE t[2] \in {"x", "X"} -> 16
           [] t[2] \in {"o", "O"} -> 8
           [] t[2] \in {"b", "B"} -> 2
           [] OTHER -> 10

\* t without its sign, if it has one.
Unsigned(t) == IF t[1] = "-" \/ t[1] = "+" THEN Tail(t) ELSE t

\* +new Date(+t) for a string t without surrounding white space.
TrimmedDate(t) ==
    IF t = Empty THEN Number(TimeValue(0), FALSE)
    ELSE IF Unsigned(t) = <<"I", "n", "f", "i", "n", "i", "t", "y">>
         THEN NotANumber
    ELSE LET base     == BaseOf(t)
             digits   == SubSeq(t, 3, Len(t))
             body     == Unsigned(t)
             negative == t[1] = "-"
         IN  IF base # 10 THEN RadixDate(digits, base)
             ELSE DecimalDate(body, negative)

\* +new Date(+s): the unary plus turns the field into a number: white
\* space is trimmed, the empty string is 0, a signed decimal literal (with
\* optional fraction and exponent), a 0x, 0o or 0b literal or a signed
\* "Infinity" is read as the double nearest to it, and anything else is
\* NaN.  new Date() makes NaN of a number that is not finite or is beyond
\* 8.64e15 in magnitude, and clips any other to an integer number of
\* milliseconds (truncating a fraction); the outer plus reads the time
\* value back.  The result is NaN or [negative, val], val the magnitude.
DateValue(s) ==
    LET t == Trim(s)
    IN  TrimmedDate(t)

\* Mutant: the normalisation lets NaN through.
PositiveOrZero_KeepsNaN(x) ==
    IF x.nan THEN NaN
    ELSE IF ~x.negative THEN x.val ELSE TimeValue(0)

\* x > 0 ? x : 0   (NaN > 0 is false)
PositiveOrZero(x) ==
    IF ~x.nan /\ ~x.negative /\ x.val # TimeValue(0) THEN x.val
    ELSE TimeValue(0)

\* ------------------------------------------------------------------------
\* Constants of _SessionManager and the configurations explored
\* ------------------------------------------------------------------------

acquisitionSpan == 86400000

renewalSpan == 1800000

cookieUpdateInterval == 60000

\* ISessionConfig after the constructor's defaulting: the accessors'
\* results.  The first is the default configuration; the second is a
\* custom one whose renewal window equals the cookie write interval; the
\* third is a custom one whose renewal window is as long as the default
\* expiration window.
Configs ==
    { [sessionExpirationMs |-> acquisitionSpan, sessionRenewalMs |-> renewalSpan],
      [sessionExpirationMs |-> renewalSpan, sessionRenewalMs |-> cookieUpdateInterval],
      [sessionExpirationMs |-> acquisitionSpan, sessionRenewalMs |-> acquisitionSpan] }

\* Util.canUseLocalStorage(): local storage is taken to be available.
CanUseLocalStorage == TRUE

\* new Session()
NewSession ==
    [id |-> UndefinedId, acquisitionDate |-> Undefined, renewalDate |-> Undefined]

\* a - b > span in JavaScript, for a clock reading a, a field b and a span
\* of the configuration: false when b is undefined or NaN (a - b is NaN).
Elapsed(a, b, span) == IsNumber(b) /\ Before(Sum(b, span), TimeValue(a))

\* x + span in JavaScript: NaN when x is undefined or NaN.
Plus(x, span) == IF IsNumber(x) THEN Sum(x, span) ELSE NaN

\* a < b in JavaScript: false when either side is NaN.
Less(a, b) == IsNumber(a) /\ IsNumber(b) /\ Before(a, b)

\* ------------------------------------------------------------------------
\* Bounds of the exploration
\* ------------------------------------------------------------------------

\* How many times the clock may advance in one behaviour.
MaxTicks == 2

\* The clock value when the page is first loaded.
StartClock == 2000000

\* The amounts of time that may pass between two calls.
Deltas == {1, cookieUpdateInterval, renewalSpan}

\* The identifiers Util.newId() may return.
GenIds == {<<"x">>, <<"y">>}

\* What the ai_session cookie may hold when the page is first loaded.
CookiePayloads ==
    { Empty,
      <<"a","|","1","9","9","9","0","0","0","|","1","9","9","9","0","0","0">>,
      <<"a","|","2","5","0","0","0","1","|","1","9","9","9","0","0","0">>,
      <<"a","|","1","9","9","9","0","0","0","|","0">>,
      <<"a","|","q","|","1","9","9","9","0","0","0">>,
      <<"a","|","1","9","9","9","0","0","0","|","r">>,
      <<"a","|","1","9","9","9","0","0","0">>,
      <<"a">>,
      <<"|","1","9","9","9","0","0","0","|","1","9","9","9","0","0","0">>,
      <<"a","|","-","5","|","1","9","9","9","0","0","0",".","7">>,
      <<"a","|","1","7","0","0","0","0","0","0","0","0","0","0","0",
        "|","1","7","0","0","0","0","0","0","0","0","0","0","0">> }

\* What local storage may hold under the same key.
StoragePayloads ==
    { Empty,
      <<"b","|","1","9","9","9","0","0","0","|","1","9","9","9","0","0","0">> }

\* ------------------------------------------------------------------------
\* _SessionManager, as operators on a record m:
\*   session  automaticSession          cut      cookieUpdatedTimestamp
\*   cookie   value of the cookie       expires  its expires attribute
\*   storage  the local storage item    cfg      config
\*   logged   messages given to the logger
\*   writes   calls of Util.setCookie   renews   calls of renew()
\* ------------------------------------------------------------------------

\* Util.newId(): an identifier other than the one in use (identifiers are
\* unique; which one is returned makes no difference to the manager).
NewId(cur) == CHOOSE h \in GenIds : h # cur

\* Date.prototype.toUTCString() after setTime(t), as the whole second the
\* string names (the format has no milliseconds), a time value in seconds;
\* NaN stands for "Invalid Date", which setTime makes of NaN and of a time
\* beyond MaxDate.
ToUTCString(t) ==
    IF ~IsNumber(t) \/ Before(MaxDate, t) THEN NaN
    ELSE <<t[1] \div 1000,
           (t[1] % 1000) * (TimeUnit \div 1000) + t[2] \div 1000>>

\* Mutant: the cookie always expires at the renewal deadline.
SetCookie_RenewalExpiryOnly(m, guid, acq, renewal, t) ==
    [m EXCEPT !.cookie  = JoinTriple(guid, acq, renewal),
              !.expires = ToUTCString(Plus(renewal, m.cfg.sessionRenewalMs)),
              !.writes  = @ + 1,
              !.cut     = TimeValue(t)]

\* setCookie(guid, acq, renewal), the write happening at time t; expires is
\* the expires attribute of the cookie string.
SetCookie(m, guid, acq, renewal, t) ==
    LET acquisitionExpiry == Plus(acq, m.cfg.sessionExpirationMs)
        renewalExpiry     == Plus(renewal, m.cfg.sessionRenewalMs)
        cookieExpiry      == IF Less(acquisitionExpiry, renewalExpiry)
                             THEN acquisitionExpiry ELSE renewalExpiry
    IN  [m EXCEPT !.cookie  = JoinTriple(guid, acq, renewal),
                  !.expires = ToUTCString(cookieExpiry),
                  !.writes  = @ + 1,
                  !.cut     = TimeValue(t)]

\* setStorage(guid, acq, renewal)
SetStorage(m, guid, acq, renewal) ==
    [m EXCEPT !.storage = JoinTriple(guid, acq, renewal)]

\* Mutant: renew() does not reset acquisitionDate.
Renew_KeepAcquisition(m, t1, t2) ==
    LET id == NewId(m.session.id)
        m1 == [m EXCEPT !.session = [id |-> id,
                                     acquisitionDate |-> @.acquisitionDate,
                                     renewalDate |-> TimeValue(t1)],
                        !.renews  = @ + 1]
    IN  SetCookie(m1, id, m1.session.acquisitionDate, TimeValue(t1), t2)

\* renew(), reading the clock as t1 and writing the cookie at t2.
Renew(m, t1, t2) ==
    LET id  == NewId(m.session.id)
        now == TimeValue(t1)
        m1  == [m EXCEPT !.session = [id |-> id, acquisitionDate |-> now,
                                      renewalDate |-> now],
                         !.renews  = @ + 1]
        m2  == SetCookie(m1, id, now, now, t2)
    IN  IF CanUseLocalStorage THEN m2
        ELSE [m2 EXCEPT !.logged = @ \cup {"BrowserDoesNotSupportLocalStorage"}]

\* initializeAutomaticSessionWithData(sessionData).  The coercions in the
\* try block cannot throw on a string, so the catch block (the critical
\* ErrorParsingAISessionCookie message) is never entered.
InitializeAutomaticSessionWithData(m, sessionData) ==
    LET params == Split(sessionData)
        id  == params[1]
        acquisition == DateValue(params[2])
        renewal     == DateValue(params[3])
        acq == IF Len(params) > 1 THEN PositiveOrZero(acquisition)
               ELSE m.session.acquisitionDate
        ren == IF Len(params) > 2 THEN PositiveOrZero(renewal)
               ELSE m.session.renewalDate
    IN  [m EXCEPT !.session = [id |-> id, acquisitionDate |-> acq,
                               renewalDate |-> ren],
                  !.logged  = IF ren = TimeValue(0)
                              THEN @ \cup {"SessionRenewalDateIsZero"}
                              ELSE @]

\* Mutant: initialization prefers local storage to the cookie.
InitializeAutomaticSession_StorageFirst(m, t1, t2) ==
    LET m1 == IF m.storage # Empty
              THEN InitializeAutomaticSessionWithData(m, m.storage)
              ELSE IF m.cookie # Empty
                   THEN InitializeAutomaticSessionWithData(m, m.cookie)
                   ELSE m
    IN  IF Falsy(m1.session.id) THEN Renew(m1, t1, t2) ELSE m1

\* Mutant: initialization never falls back to local storage.
InitializeAutomaticSession_CookieOnly(m, t1, t2) ==
    LET m1 == IF m.cookie # Empty
              THEN InitializeAutomaticSessionWithData(m, m.cookie)
              ELSE m
    IN  IF Falsy(m1.session.id) THEN Renew(m1, t1, t2) ELSE m1

\* Mutant: initialization that does not renew when it found no id.
InitializeAutomaticSession_NoRenew(m, t1, t2) ==
    IF m.cookie # Empty
    THEN InitializeAutomaticSessionWithData(m, m.cookie)
    ELSE IF m.storage # Empty
         THEN InitializeAutomaticSessionWithData(m, m.storage)
         ELSE m

\* initializeAutomaticSession(); a renew() in it reads the clock as t1, t2.
InitializeAutomaticSession(m, t1, t2) ==
    LET m1 == IF m.cookie # Empty
              THEN InitializeAutomaticSessionWithData(m, m.cookie)
              ELSE IF m.storage # Empty
                   THEN InitializeAutomaticSessionWithData(m, m.storage)
                   ELSE m
    IN  IF Falsy(m1.session.id) THEN Renew(m1, t1, t2) ELSE m1

\* acquisitionExpired || renewalExpired, at the clock reading now.
SessionExpired(m, now) ==
    LET acquisitionExpired ==
            Elapsed(now, m.session.acquisitionDate, m.cfg.sessionExpirationMs)
        renewalExpired ==
            Elapsed(now, m.session.renewalDate, m.cfg.sessionRenewalMs)
    IN  acquisitionExpired \/ renewalExpired

\* Mutant: the throttle lets a write through once the interval is reached.
CookieUpdateDue_AtInterval(m, now) ==
    \/ m.cut = Undefined
    \/ m.cut = TimeValue(0)
    \/ Elapsed(now, m.cut, cookieUpdateInterval - 1)

\* The write throttle: no cookie write by this manager yet (undefined and 0
\* are both falsy), or more than cookieUpdateInterval since the last one.
CookieUpdateDue(m, now) ==
    \/ m.cut = Undefined
    \/ m.cut = TimeValue(0)
    \/ Elapsed(now, m.cut, cookieUpdateInterval)

\* Mutant: the keep-alive write leaves renewalDate as it was.
KeepAlive_StaleRenewalDate(m, now, t) ==
    SetCookie(m, m.session.id, m.session.acquisitionDate,
              m.session.renewalDate, t)

\* Mutant: the keep-alive write restarts the acquisition window as well.
KeepAlive_ResetsAcquisition(m, now, t) ==
    SetCookie([m EXCEPT !.session.renewalDate = TimeValue(now),
                        !.session.acquisitionDate = TimeValue(now)],
              m.session.id, TimeValue(now), TimeValue(now), t)

\* Mutant: the keep-alive changes renewalDate in memory and writes nothing.
KeepAlive_MemoryOnly(m, now, t) ==
    [m EXCEPT !.session.renewalDate = TimeValue(now), !.cut = TimeValue(t)]

\* The keep-alive write: renewalDate = now, then setCookie at time t.
KeepAlive(m, now, t) ==
    SetCookie([m EXCEPT !.session.renewalDate = TimeValue(now)],
              m.session.id, m.session.acquisitionDate, TimeValue(now), t)

\* Mutant: update() subjects the renewal to the write throttle as well.
Update_ThrottledRenewal(m, reads) ==
    LET m1  == IF Falsy(m.session.id)
               THEN InitializeAutomaticSession(m, reads[1], reads[2])
               ELSE m
        now == reads[3]
    IN  IF ~CookieUpdateDue(m1, now) THEN m1
        ELSE IF SessionExpired(m1, now)
             THEN Renew(m1, reads[4], reads[5])
             ELSE KeepAlive(m1, now, reads[4])

\* update(); reads are the values DateTimeUtils.Now() returns, in order:
\* reads[1], reads[2] to a renew() during initialization, reads[3] to
\* update() itself, reads[4], reads[5] to the renew() or the cookie write
\* that follows.
Update(m, reads) ==
    LET m1  == IF Falsy(m.session.id)
               THEN InitializeAutomaticSession(m, reads[1], reads[2])
               ELSE m
        now == reads[3]
    IN  IF SessionExpired(m1, now)
        THEN Renew(m1, reads[4], reads[5])
        ELSE IF CookieUpdateDue(m1, now)
             THEN KeepAlive(m1, now, reads[4])
             ELSE m1

\* Mutant: backup() stores acquisitionDate in place of renewalDate.
Backup_DropsRenewal(m) ==
    SetStorage(m, m.session.id, m.session.acquisitionDate,
               m.session.acquisitionDate)

\* backup()
Backup(m) ==
    SetStorage(m, m.session.id, m.session.acquisitionDate, m.session.renewalDate)

\* ------------------------------------------------------------------------
\* State
\* ------------------------------------------------------------------------

VARIABLES
    automaticSession,        \* the Session the manager holds
    cookieUpdatedTimestamp,  \* time of the manager's last cookie write
    config,                  \* the resolved ISessionConfig
    cookie,                  \* the ai_session cookie: [value, expires]
    storage,                 \* the ai_session item of local storage
    clock,                   \* what DateTimeUtils.Now() returns next
    ticks,                   \* how many times the clock has advanced
    call                     \* the last operation: its name, the state it
                             \* started from, its clock reading and what it
                             \* gave to the logger and the cookie backend

vars == <<automaticSession, cookieUpdatedTimestamp, config, cookie, storage,
          clock, ticks, call>>

\* The manager and its backends as the record the operators work on.
Manager ==
    [session |-> automaticSession,
     cut     |-> cookieUpdatedTimestamp,
     cookie  |-> cookie.value,
     expires |-> cookie.expires,
     storage |-> storage,
     cfg     |-> config,
     logged  |-> {},
     writes  |-> 0,
     renews  |-> 0]

\* What an operation is remembered by: its name, the state it started
\* from, the clock when it started and as update() read it, what it gave to
\* the logger, how often it wrote the cookie and called renew(); and, of
\* this manager's update() calls so far, when the latest started and
\* whether each read the clock within sessionRenewalMs() of the start of
\* the one before.
Record(op, before, start, now, after, lastUpdate, spaced) ==
    [op     |-> op,
     pre    |-> [session |-> before.session, cut |-> before.cut,
                 cookie |-> before.cookie, storage |-> before.storage],
     start  |-> start,
     now    |-> now,
     logged |-> after.logged,
     writes |-> after.writes,
     renews |-> after.renews,
     lastUpdate |-> lastUpdate,
     spaced |-> spaced]

\* The Now() values of one call that starts at time t: the clock advances
\* by one millisecond before the k-th reading, or not at all (k = 6).  (An
\* advance before the first reading is a Tick followed by the call.)
Readings(t, k) == [i \in 1..5 |-> IF i < k THEN t ELSE t + 1]

\* Where the clock may advance during a call: while initialization renews,
\* between update()'s own reading and what follows it, or nowhere.
DriftPoints == {2, 4, 6}

\* constructor: a page load creates the manager over whatever the cookie
\* and local storage hold.
Init ==
    /\ automaticSession = NewSession
    /\ cookieUpdatedTimestamp = Undefined
    /\ config \in Configs
    /\ \E c \in CookiePayloads : cookie = [value |-> c, expires |-> Undefined]
    /\ storage \in StoragePayloads
    /\ clock = StartClock
    /\ ticks = 0
    /\ call = Record("construct", Manager, StartClock, StartClock, Manager,
                     Undefined, TRUE)

\* update()
UpdateCall ==
    \E k \in DriftPoints :
        \E m \in {Update(Manager, Readings(clock, k))} :
            LET reads == Readings(clock, k)
            IN  /\ k = 6 \/ ticks < MaxTicks
                /\ automaticSession' = m.session
                /\ cookieUpdatedTimestamp' = m.cut
                /\ cookie' = [value |-> m.cookie, expires |-> m.expires]
                /\ storage' = m.storage
                /\ clock' = reads[5]
                /\ ticks' = IF k = 6 THEN ticks ELSE ticks + 1
                /\ call' = Record("update", Manager, reads[1], reads[3], m,
                                  TimeValue(reads[1]),
                                  /\ call.spaced
                                  /\ ~Elapsed(reads[3], call.lastUpdate,
                                              config.sessionRenewalMs))
                /\ UNCHANGED config

\* backup()
BackupCall ==
    \E m \in {Backup(Manager)} :
        /\ automaticSession' = m.session
        /\ cookieUpdatedTimestamp' = m.cut
        /\ cookie' = [value |-> m.cookie, expires |-> m.expires]
        /\ storage' = m.storage
        /\ call' = Record("backup", Manager, clock, clock, m,
                          call.lastUpdate, call.spaced)
        /\ UNCHANGED <<config, clock, ticks>>

\* constructor, on a later page load with the same configuration; the
\* browser may have dropped the cookie since the last page (it expired, or
\* was evicted).  The manager reads the cookie only while it holds no id,
\* so an earlier loss of the cookie is this one.
Construct ==
    \E lost \in BOOLEAN :
        LET m == [Manager EXCEPT
                      !.session = NewSession,
                      !.cut     = Undefined,
                      !.cookie  = IF lost THEN Empty ELSE @,
                      !.expires = IF lost THEN Undefined ELSE @]
        IN  /\ call.op # "construct"
            /\ lost => cookie.value # Empty
            /\ automaticSession' = m.session
            /\ cookieUpdatedTimestamp' = m.cut
            /\ cookie' = [value |-> m.cookie, expires |-> m.expires]
            /\ call' = Record("construct", m, clock, clock, m, Undefined, TRUE)
            /\ UNCHANGED <<config, storage, clock, ticks>>

\* Time passes between two calls.
Tick ==
    \E d \in Deltas :
        /\ ticks < MaxTicks
        /\ clock' = clock + d
        /\ ticks' = ticks + 1
        /\ UNCHANGED <<automaticSession, cookieUpdatedTimestamp, config,
                       cookie, storage, call>>

Next == UpdateCall \/ BackupCall \/ Construct \/ Tick

Spec == Init /\ [][Next]_vars

\* ------------------------------------------------------------------------
\* Vocabulary of the properties
\* ------------------------------------------------------------------------

\* The last operation was update(), and it has returned.
AfterUpdate == call.op = "update"

\* The manager held a session id when the last operation started.
Held == ~Falsy(call.pre.session.id)

\* A persisted payload as the manager reads it into an empty Session.
Parsed(data) ==
    InitializeAutomaticSessionWithData([session |-> NewSession, logged |-> {}],
                                       data).session

\* The session whose age the last update() examined: the one held, or the
\* one initialization read from the cookie or else from local storage.
Examined ==
    IF Held THEN call.pre.session
    ELSE IF call.pre.cookie # Empty THEN Parsed(call.pre.cookie)
    ELSE IF call.pre.storage # Empty THEN Parsed(call.pre.storage)
    ELSE NewSession

\* now - acquisitionDate > sessionExpirationMs() or
\* now - renewalDate > sessionRenewalMs(), for session s at time t.
ExpiredAt(s, t) ==
    \/ Elapsed(t, s.acquisitionDate, config.sessionExpirationMs)
    \/ Elapsed(t, s.renewalDate, config.sessionRenewalMs)

\* The triple the cookie holds is the session in memory.
CookieHoldsSession ==
    cookie.value = JoinTriple(automaticSession.id,
                              automaticSession.acquisitionDate,
                              automaticSession.renewalDate)

\* The manager wrote the cookie before the last operation started.
WroteBefore == call.pre.cut # Undefined /\ call.pre.cut # TimeValue(0)

\* a <= b for two time values.
NotAfter(a, b) == ~Before(b, a)

\* The time value t is a whole number of seconds.
WholeSecond(t) == t[2] % 1000 = 0

\* ------------------------------------------------------------------------
\* Properties
\* ------------------------------------------------------------------------

\* C1: after any update() returns the session id is set and non-empty,
\* whatever the cookie and local storage held, and backup() leaves the id
\* as it was.
C1_IdPopulated ==
    /\ AfterUpdate => ~Falsy(automaticSession.id)
    /\ call.op = "backup" => automaticSession.id = call.pre.session.id

\* C1 witness: a first update() over a cookie whose id field is empty.
C1_Witness ==
    /\ AfterUpdate
    /\ ~Held
    /\ call.pre.cookie # Empty
    /\ Split(call.pre.cookie)[1] = Empty
    /\ automaticSession.id \in GenIds

\* C2: an update() that finds the session expired renews it: a new id, both
\* dates set together, the new triple in the cookie, also when the last
\* cookie write is no older than cookieUpdateInterval.
C2_ExpiredRenews ==
    (AfterUpdate /\ ~Falsy(Examined.id) /\ ExpiredAt(Examined, call.now)) =>
        /\ call.renews = 1
        /\ call.writes = 1
        /\ automaticSession.id # Examined.id
        /\ automaticSession.id \in GenIds
        /\ automaticSession.acquisitionDate = automaticSession.renewalDate
        /\ NotAfter(TimeValue(call.now), automaticSession.acquisitionDate)
        /\ CookieHoldsSession

\* C2 witness: a renewal of an expired session at a moment when the throttle
\* would have suppressed a keep-alive write.
C2_Witness ==
    /\ AfterUpdate
    /\ Held
    /\ ExpiredAt(call.pre.session, call.now)
    /\ WroteBefore
    /\ ~Elapsed(call.now, call.pre.cut, cookieUpdateInterval)
    /\ call.renews = 1
    /\ automaticSession.id # call.pre.session.id

\* C3: within both expiry windows, an update() that comes no later than
\* cookieUpdateInterval after the cookie write of an earlier update() leaves
\* renewalDate (and the rest of the session) alone and writes no cookie.
C3_ThrottledNoWrite ==
    (/\ AfterUpdate /\ Held /\ WroteBefore
     /\ ~ExpiredAt(call.pre.session, call.now)
     /\ ~Elapsed(call.now, call.pre.cut, cookieUpdateInterval)) =>
        /\ call.writes = 0
        /\ call.renews = 0
        /\ automaticSession = call.pre.session
        /\ cookie.value = call.pre.cookie
        /\ cookieUpdatedTimestamp = call.pre.cut

\* C3 witness: a session read from a persisted triple, updated again exactly
\* cookieUpdateInterval after its cookie write, without a write.
C3_Witness ==
    /\ AfterUpdate
    /\ Held
    /\ automaticSession.id = <<"a">>
    /\ WroteBefore
    /\ Sum(call.pre.cut, cookieUpdateInterval) = TimeValue(call.now)
    /\ call.writes = 0

\* C4: within both expiry windows, an update() that comes more than
\* cookieUpdateInterval after the last cookie write sets renewalDate to the
\* current time and writes the cookie exactly once, keeping id and
\* acquisitionDate.
C4_KeepAliveAfterInterval ==
    (/\ AfterUpdate /\ Held /\ WroteBefore
     /\ ~ExpiredAt(call.pre.session, call.now)
     /\ Elapsed(call.now, call.pre.cut, cookieUpdateInterval)) =>
        /\ call.writes = 1
        /\ call.renews = 0
        /\ automaticSession.renewalDate = TimeValue(call.now)
        /\ automaticSession.id = call.pre.session.id
        /\ automaticSession.acquisitionDate = call.pre.session.acquisitionDate
        /\ CookieHoldsSession
        /\ NotAfter(TimeValue(call.now), cookieUpdatedTimestamp)

\* C4 witness: such a keep-alive write, moving renewalDate forward.
C4_Witness ==
    /\ AfterUpdate
    /\ Held
    /\ WroteBefore
    /\ Elapsed(call.now, call.pre.cut, cookieUpdateInterval)
    /\ call.writes = 1
    /\ call.renews = 0
    /\ Before(call.pre.session.renewalDate, automaticSession.renewalDate)

\* C5: while this manager's update() calls follow one another within
\* sessionRenewalMs() and the session is no older than sessionExpirationMs(),
\* update() keeps the id.
C5_ActivityKeepsId ==
    (/\ AfterUpdate /\ Held /\ call.spaced
     /\ ~Elapsed(call.now, call.pre.session.acquisitionDate,
                 config.sessionExpirationMs)) =>
        automaticSession.id = call.pre.session.id

\* What an update() leaves behind, local storage aside.
Outcome(m) ==
    [session |-> m.session, cut |-> m.cut, cookie |-> m.cookie,
     expires |-> m.expires, writes |-> m.writes, renews |-> m.renews]

\* backup() wrote the session it found, verbatim, and touched nothing else.
BackupFrame ==
    call.op = "backup" =>
        /\ storage = JoinTriple(call.pre.session.id,
                                call.pre.session.acquisitionDate,
                                call.pre.session.renewalDate)
        /\ automaticSession = call.pre.session
        /\ cookieUpdatedTimestamp = call.pre.cut
        /\ cookie.value = call.pre.cookie
        /\ call.writes = 0
        /\ call.renews = 0

\* After a backup(), an update() gives the same outcome as it would had
\* the backup() not been called (local storage still as it was before).
BackupUnseen ==
    call.op = "backup" =>
        \A k \in DriftPoints :
            LET with    == Update(Manager, Readings(clock, k))
                without == Update([Manager EXCEPT !.storage = call.pre.storage],
                                  Readings(clock, k))
            IN  Outcome(with) = Outcome(without)

\* C6 as stated: backup() writes the triple verbatim and changes nothing
\* else, and no later update() can tell whether backup() was called.
C6_Original == BackupFrame /\ BackupUnseen

\* C6 as amended: backup() writes the triple verbatim, in any expiry state,
\* and changes nothing else; a later update() gives the same outcome as
\* without the backup when the manager already holds an id or the cookie is
\* present, that is, when update() does not initialize from local storage.
C6_BackupVerbatim ==
    /\ BackupFrame
    /\ (~Falsy(automaticSession.id) \/ cookie.value # Empty) => BackupUnseen

\* C6 witness: a backup() of an expired session that changed local storage.
C6_Witness ==
    /\ call.op = "backup"
    /\ Held
    /\ ExpiredAt(automaticSession, clock)
    /\ storage # call.pre.storage
    /\ storage = JoinTriple(automaticSession.id,
                            automaticSession.acquisitionDate,
                            automaticSession.renewalDate)

\* C7: with neither a cookie nor a local storage item, the first update()
\* mints an id, sets acquisitionDate and renewalDate to the same clock
\* reading of that call, and writes that triple to the cookie.
C7_MintFromNothing ==
    (/\ AfterUpdate /\ ~Held
     /\ call.pre.cookie = Empty /\ call.pre.storage = Empty) =>
        /\ automaticSession.id \in GenIds
        /\ call.renews = 1
        /\ automaticSession.acquisitionDate = automaticSession.renewalDate
        /\ NotAfter(TimeValue(call.start), automaticSession.acquisitionDate)
        /\ NotAfter(automaticSession.acquisitionDate, TimeValue(call.now))
        /\ call.writes >= 1
        /\ CookieHoldsSession

\* C7 witness: a first update() with nothing persisted.
C7_Witness ==
    /\ AfterUpdate /\ ~Held
    /\ call.pre.cookie = Empty /\ call.pre.storage = Empty
    /\ automaticSession.id \in GenIds
    /\ automaticSession.acquisitionDate = TimeValue(call.now)

\* C8: when the cookie holds a value, initialization takes the session from
\* it and what local storage holds (a payload, nothing, or the "||" that a
\* backup() of a new manager leaves) makes no difference to the first
\* update() of a page load: the id is the cookie's first field, or a minted
\* one when that is empty.
C8_CookieFirst ==
    /\ (call.op = "construct" /\ cookie.value # Empty) =>
           \A k \in DriftPoints :
               LET with == Update(Manager, Readings(clock, k))
               IN  \A alt \in (StoragePayloads \cup {<<"|", "|">>}) \ {storage} :
                       LET other == Update([Manager EXCEPT !.storage = alt],
                                           Readings(clock, k))
                       IN  /\ Outcome(other) = Outcome(with)
                           /\ other.logged = with.logged
    /\ (AfterUpdate /\ ~Held /\ call.pre.cookie # Empty) =>
           /\ storage = call.pre.storage
           /\ \/ automaticSession.id = Split(call.pre.cookie)[1]
              \/ automaticSession.id \in GenIds /\ call.renews >= 1

\* C8 witness: a first update() with a cookie and a different local storage
\* item, which took the cookie's id.
C8_Witness ==
    /\ AfterUpdate /\ ~Held
    /\ call.pre.cookie # Empty
    /\ call.pre.storage # Empty
    /\ Parsed(call.pre.storage).id # Parsed(call.pre.cookie).id
    /\ automaticSession.id = Parsed(call.pre.cookie).id
    /\ call.renews = 0

\* All three fields of s are set.
Complete(s) ==
    /\ ~Falsy(s.id)
    /\ s.acquisitionDate # Undefined
    /\ s.renewalDate # Undefined

\* data is what setStorage or setCookie writes for a complete session.
Backed(data) ==
    /\ data # Empty
    /\ Complete(Parsed(data))
    /\ data = JoinTriple(Parsed(data).id, Parsed(data).acquisitionDate,
                         Parsed(data).renewalDate)

\* C9: with the cookie gone and a backed-up session in local storage that
\* is within both windows at the time of the call, the first update() of a
\* fresh manager keeps the backed-up id and acquisitionDate and mints none.
C9_RecoverFromStorage ==
    (/\ AfterUpdate /\ ~Held
     /\ call.pre.cookie = Empty
     /\ Backed(call.pre.storage)
     /\ ~ExpiredAt(Parsed(call.pre.storage), call.now)) =>
        /\ automaticSession.id = Parsed(call.pre.storage).id
        /\ automaticSession.acquisitionDate
               = Parsed(call.pre.storage).acquisitionDate
        /\ call.renews = 0

\* C9 witness: the recovered id is a minted one, which only a backup() can
\* have put into local storage.
C9_Witness ==
    /\ AfterUpdate /\ ~Held
    /\ call.pre.cookie = Empty
    /\ Backed(call.pre.storage)
    /\ Parsed(call.pre.storage).id \in GenIds
    /\ automaticSession.id = Parsed(call.pre.storage).id
    /\ call.renews = 0

\* C10 as stated: whatever session the manager holds, the triple its
\* writers produce (the cookie an update() wrote, the item a backup()
\* stored) parses back to the same id, acquisitionDate and renewalDate.
C10_Original ==
    /\ (AfterUpdate /\ call.writes > 0) =>
           Parsed(cookie.value) = automaticSession
    /\ call.op = "backup" => Parsed(storage) = automaticSession

\* C10 as amended: the round trip holds for every session the manager can
\* hold whose id, acquisitionDate and renewalDate are all set.
C10_RoundTrip ==
    Complete(automaticSession) =>
        /\ (AfterUpdate /\ call.writes > 0) =>
               Parsed(cookie.value) = automaticSession
        /\ call.op = "backup" => Parsed(storage) = automaticSession
        /\ Parsed(JoinTriple(automaticSession.id,
                             automaticSession.acquisitionDate,
                             automaticSession.renewalDate))
               = automaticSession

\* C10 witness: a cookie written for a complete session whose two dates
\* differ, parsing back to that session.
C10_Witness ==
    /\ AfterUpdate /\ call.writes > 0
    /\ Complete(automaticSession)
    /\ Before(TimeValue(0), automaticSession.acquisitionDate)
    /\ automaticSession.acquisitionDate # automaticSession.renewalDate
    /\ Parsed(cookie.value) = automaticSession

\* The expiry the code computes for the session in memory: the acquisition
\* deadline when it is set and strictly earlier, else the renewal deadline.
ExpiryOfSession ==
    LET a == Plus(automaticSession.acquisitionDate, config.sessionExpirationMs)
        r == Plus(automaticSession.renewalDate, config.sessionRenewalMs)
    IN  IF Less(a, r) THEN a ELSE r

\* C11 as stated: the expires attribute of a cookie update() wrote is
\* min(acquisitionDate + sessionExpirationMs(), renewalDate +
\* sessionRenewalMs()) of the triple in that cookie, to the millisecond.
C11_Original ==
    (AfterUpdate /\ call.writes > 0) =>
        /\ automaticSession.acquisitionDate # Undefined
        /\ automaticSession.renewalDate # Undefined
        /\ cookie.expires # NaN
        /\ cookie.expires = ToUTCString(ExpiryOfSession)
        /\ WholeSecond(ExpiryOfSession)

\* C11 as amended: the expires attribute is the UTC date string of that
\* minimum, which names it to the whole second; when the triple written has
\* no acquisitionDate it is that of renewalDate + sessionRenewalMs().
C11_ExpiryToTheSecond ==
    (AfterUpdate /\ call.writes > 0) =>
        /\ CookieHoldsSession
        /\ automaticSession.renewalDate # Undefined
        /\ cookie.expires = ToUTCString(ExpiryOfSession)
        /\ automaticSession.acquisitionDate # Undefined =>
               /\ NotAfter(ExpiryOfSession,
                           Sum(automaticSession.acquisitionDate,
                               config.sessionExpirationMs))
               /\ NotAfter(ExpiryOfSession,
                           Sum(automaticSession.renewalDate,
                               config.sessionRenewalMs))
        /\ automaticSession.acquisitionDate = Undefined =>
               ExpiryOfSession = Sum(automaticSession.renewalDate,
                                     config.sessionRenewalMs)

\* C11 witness: a cookie written with the acquisition deadline, the earlier
\* of the two, at a time that is not a whole second.
C11_Witness ==
    /\ AfterUpdate /\ call.writes > 0
    /\ automaticSession.acquisitionDate # Undefined
    /\ Before(Sum(automaticSession.acquisitionDate,
                  config.sessionExpirationMs),
              Sum(automaticSession.renewalDate, config.sessionRenewalMs))
    /\ ~WholeSecond(ExpiryOfSession)
    /\ cookie.expires = ToUTCString(ExpiryOfSession)

\* The payload the last update() initialized from: the cookie, or local
\* storage when the cookie was empty.
Loaded == IF call.pre.cookie # Empty THEN call.pre.cookie ELSE call.pre.storage

\* The last update() initialized the session from a persisted payload.
Initialized == AfterUpdate /\ ~Held /\ Loaded # Empty

\* Field i of the payload is present and is no numeric literal.
NonNumeric(data, i) ==
    LET params == Split(data)
    IN  Len(params) >= i /\ DateValue(params[i]).nan

\* C12: an update() that initializes from a payload whose acquisition or
\* renewal field is not numeric returns normally, with an id, having read
\* that field as 0; when it did not renew, the session in memory has the 0.
C12_NonNumericIsZero ==
    Initialized =>
        /\ NonNumeric(Loaded, 2) =>
               /\ Examined.acquisitionDate = TimeValue(0)
               /\ ~Falsy(automaticSession.id)
               /\ call.renews = 0 =>
                      automaticSession.acquisitionDate = TimeValue(0)
        /\ NonNumeric(Loaded, 3) =>
               /\ Examined.renewalDate = TimeValue(0)
               /\ ~Falsy(automaticSession.id)

\* C12 witness: update() over a cookie whose acquisition field is not
\* numeric returned, keeping the id read with acquisitionDate 0.
C12_Witness ==
    /\ Initialized
    /\ NonNumeric(Loaded, 2)
    /\ call.renews = 0
    /\ automaticSession.id = Split(Loaded)[1]
    /\ automaticSession.acquisitionDate = TimeValue(0)

\* C13: an update() that initializes from a payload with a non-numeric
\* acquisition or renewal field logs the critical parse error.
C13_CriticalLogged ==
    (Initialized /\ (NonNumeric(Loaded, 2) \/ NonNumeric(Loaded, 3))) =>
        "ErrorParsingAISessionCookie" \in call.logged

\* C14: in every state the caller can observe, the session has an id
\* exactly when it has both an acquisitionDate and a renewalDate.
C14_AllOrNothing ==
    (automaticSession.id # UndefinedId) <=>
        (/\ automaticSession.acquisitionDate # Undefined
         /\ automaticSession.renewalDate # Undefined)

\* C15: an update() whose initialization read an id but not both dates
\* renews, and leaves a session with all three fields.
C15_PartialForcesRenewal ==
    (Initialized /\ ~Falsy(Examined.id) /\ ~Complete(Examined)) =>
        /\ call.renews > 0
        /\ Complete(automaticSession)

\* C16: after every update() both dates are within their windows at the
\* time the call read the clock.
C16_ActiveAfterUpdate ==
    AfterUpdate =>
        /\ automaticSession.acquisitionDate # Undefined
        /\ automaticSession.renewalDate # Undefined
        /\ ~Elapsed(call.now, automaticSession.acquisitionDate,
                    config.sessionExpirationMs)
        /\ ~Elapsed(call.now, automaticSession.renewalDate,
                    config.sessionRenewalMs)

\* C17: after every update() that leaves an acquisitionDate, the
\* renewalDate is set and not earlier than it.
C17_RenewalNotBeforeAcquisition ==
    (AfterUpdate /\ automaticSession.acquisitionDate # Undefined) =>
        /\ automaticSession.renewalDate # Undefined
        /\ NotAfter(automaticSession.acquisitionDate,
                    automaticSession.renewalDate)

\* The last update() initialized from a payload whose renewal date it read
\* as exactly 0.
ZeroRenewalRead == Initialized /\ Examined.renewalDate = TimeValue(0)

\* The last update() logged the warning and replaced the session read by a
\* new one.
WarnedAndRenewed ==
    /\ "SessionRenewalDateIsZero" \in call.logged
    /\ call.renews > 0
    /\ automaticSession.id \in GenIds
    /\ automaticSession.id # Examined.id
    /\ automaticSession.renewalDate = automaticSession.acquisitionDate

\* C18: whenever initialization reads renewalDate as exactly 0, update()
\* logs the warning ("session will be reset") and renews the session: a new
\* id, with both dates set to the time of the renewal.
C18_ZeroRenewalRenews == ZeroRenewalRead => WarnedAndRenewed

\* C19: an update() that does not renew leaves the id and acquisitionDate
\* of the session it examined (the one held, or the one just read from
\* persisted data) and changes at most renewalDate, to now; an update()
\* that renews gives a new id with acquisitionDate = renewalDate = the time
\* of the renewal; backup() changes no field.
C19_IdentityChangesOnlyInRenewal ==
    /\ AfterUpdate =>
           IF call.renews = 0
           THEN /\ automaticSession.id = Examined.id
                /\ automaticSession.acquisitionDate = Examined.acquisitionDate
                /\ \/ automaticSession.renewalDate = Examined.renewalDate
                   \/ automaticSession.renewalDate = TimeValue(call.now)
           ELSE /\ automaticSession.id \in GenIds
                /\ automaticSession.id # Examined.id
                /\ automaticSession.acquisitionDate = automaticSession.renewalDate
                /\ NotAfter(TimeValue(call.start),
                            automaticSession.acquisitionDate)
                /\ NotAfter(automaticSession.acquisitionDate,
                            TimeValue(clock))
    /\ call.op = "backup" => automaticSession = call.pre.session

\* C19 witness: an update() of a held session that did not renew moved
\* renewalDate to now and kept id and acquisitionDate.
C19_Witness ==
    /\ AfterUpdate /\ Held
    /\ call.renews = 0
    /\ automaticSession.renewalDate = TimeValue(call.now)
    /\ automaticSession.renewalDate # call.pre.session.renewalDate
    /\ automaticSession.id = call.pre.session.id
    /\ automaticSession.acquisitionDate = call.pre.session.acquisitionDate

\* C20: after every update(), and after a backup() that follows one, the
\* cookie holds the triple in memory; an update() that changed a session
\* field wrote the cookie.
C20_CookieMirrorsMemory ==
    /\ (AfterUpdate \/ (call.op = "backup" /\ Held)) => CookieHoldsSession
    /\ (AfterUpdate /\ automaticSession # call.pre.session) => call.writes > 0

\* C20 witness: the first update() after loading a persisted session kept
\* its id and rewrote the cookie, which now differs from the one read.
C20_Witness ==
    /\ Initialized
    /\ call.renews = 0
    /\ call.writes > 0
    /\ CookieHoldsSession
    /\ cookie.value # call.pre.cookie
    /\ call.pre.cookie # Empty

====
